---------------------------- MODULE Spec2Model ----------------------------
(***************************************************************************)
(* A model of the PII detection, overlap resolution, risk scoring and     *)
(* masking engine (pii_detector/config.py, detection.py, masking.py) and  *)
(* of the request handlers that drive it (app.py).                        *)
(*                                                                         *)
(* Text is a sequence of one-character strings; offsets are 0-based and   *)
(* half-open as in Python, so text[start:end] is Slice(text, start, end). *)
(* Regular expressions are syntax trees interpreted by a matcher with the  *)
(* priorities of Python's re module (leftmost, first alternative first,   *)
(* greedy repetition).                                                    *)
(***************************************************************************)
EXTENDS Integers, Sequences, FiniteSets, TLC

VARIABLES
    phase,      \* position of the current call: which handler step ran last
    cfg,        \* the inputs of the current call (mode, masking, flags, ...)
    text,       \* the input text of the current request
    raw,        \* the candidate list handed to _deduplicate_entities
    entities,   \* the annotation list returned by the last detection/resolution
    report,     \* the last risk_score result
    masked,     \* the last masking result
    counter,    \* the next value of masking._synthetic_counter
    round       \* how many times a masked output was submitted again

vars == <<phase, cfg, text, raw, entities, report, masked, counter, round>>

---------------------------------------------------------------------------
(* Characters and Python string helpers                                    *)

DigitSeq == <<"0", "1", "2", "3", "4", "5", "6", "7", "8", "9">>
UpperSeq == <<"A", "B", "C", "D", "E", "F", "G", "H", "I", "J", "K", "L", "M",
              "N", "O", "P", "Q", "R", "S", "T", "U", "V", "W", "X", "Y", "Z">>
LowerSeq == <<"a", "b", "c", "d", "e", "f", "g", "h", "i", "j", "k", "l", "m",
              "n", "o", "p", "q", "r", "s", "t", "u", "v", "w", "x", "y", "z">>

Range(s) == {s[i] : i \in 1..Len(s)}

Digit == Range(DigitSeq)
Upper == Range(UpperSeq)
Lower == Range(LowerSeq)
Alpha == Upper \cup Lower
\* \w of the re module (ASCII part)
WordCh == Alpha \cup Digit \cup {"_"}
\* \s of the re module (ASCII part)
SpaceCh == {" ", "\t", "\n", "\r"}

\* str.isdigit
IsDigit(ch) == ch \in Digit

\* int(d) for a decimal digit character
DigitVal(ch) == (CHOOSE i \in 1..10 : DigitSeq[i] = ch) - 1

\* str(d) for 0 <= d <= 9
DigitChr(d) == DigitSeq[d + 1]

\* str.lower on one character
LowerCh(ch) ==
    IF ch \in Upper THEN LowerSeq[CHOOSE i \in 1..26 : UpperSeq[i] = ch] ELSE ch

\* str.lower
LowerStr(s) == [i \in 1..Len(s) |-> LowerCh(s[i])]

\* str.upper on one character
UpperCh(ch) ==
    IF ch \in Lower THEN UpperSeq[CHOOSE i \in 1..26 : LowerSeq[i] = ch] ELSE ch

\* a set of letters together with their other-case forms (re.IGNORECASE)
AnyCase(S) == {LowerCh(c) : c \in S} \cup {UpperCh(c) : c \in S}

\* s[a:b] with 0 <= a, Python clamping of b
Slice(s, a, b) ==
    LET hi == IF b > Len(s) THEN Len(s) ELSE b
    IN  IF a >= hi THEN << >> ELSE [i \in 1..(hi - a) |-> s[a + i]]

\* str.find(sub) from offset 0: lowest 0-based index, or -1
Find(s, sub) ==
    LET hits == {i \in 0..(Len(s) - Len(sub)) : Slice(s, i, i + Len(sub)) = sub}
    IN  IF hits = {} THEN 0 - 1
        ELSE CHOOSE i \in hits : \A j \in hits : i <= j

\* reversed(s)
Reverse(s) == [i \in 1..Len(s) |-> s[Len(s) + 1 - i]]

\* the digit characters of s, in order
RECURSIVE DigitsOf(_)
DigitsOf(s) ==
    IF s = << >> THEN << >>
    ELSE IF IsDigit(Head(s)) THEN <<Head(s)>> \o DigitsOf(Tail(s))
    ELSE DigitsOf(Tail(s))

\* str(n) for n >= 0
RECURSIVE Str(_)
Str(n) == IF n < 10 THEN <<DigitChr(n)>> ELSE Append(Str(n \div 10), DigitChr(n % 10))

\* "".join of k copies of ch
Repeat(ch, k) == [i \in 1..k |-> ch]

---------------------------------------------------------------------------
(* The regular-expression matcher (re.finditer)                            *)

\* syntax tree constructors
Chr(S) == [op |-> "chr", set |-> S]
Lit(s) == [op |-> "lit", sets |-> [i \in 1..Len(s) |-> {s[i]}]]
LitI(s) == [op |-> "lit", sets |-> [i \in 1..Len(s) |-> AnyCase({s[i]})]]
Cat(items) == [op |-> "seq", items |-> items]
Alt(items) == [op |-> "alt", items |-> items]
Rep(r, lo, hi) == [op |-> "rep", r |-> r, min |-> lo, max |-> hi, inf |-> FALSE]
RepInf(r, lo) == [op |-> "rep", r |-> r, min |-> lo, max |-> 0, inf |-> TRUE]
Opt(r) == Rep(r, 0, 1)
Grp(r) == [op |-> "grp", r |-> r]
WordB == [op |-> "wb"]
Eol == [op |-> "eol"]
NotBehind(S) == [op |-> "nlb", set |-> S]
NotAhead(S) == [op |-> "nla", set |-> S]
NotAheadEol == [op |-> "nlaeol"]

NoMatch == [ok |-> FALSE]

\* \b at 0-based offset i of t
AtWordBoundary(t, i) ==
    LET before == i > 0 /\ t[i] \in WordCh
        after == i < Len(t) /\ t[i + 1] \in WordCh
    IN  before # after

\* $ at offset i: the end of t, or just before a final newline
AtEnd(t, i) == i = Len(t) \/ (i = Len(t) - 1 /\ t[Len(t)] = "\n")

\* the length of the longest run of characters of S at offset i, at most cap
RunLength(t, S, i, cap) ==
    LET lim == IF Len(t) - i < cap THEN Len(t) - i ELSE cap
        stop == {k \in 0..lim : k = lim \/ t[i + k + 1] \notin S}
    IN  CHOOSE k \in stop : \A j \in stop : k <= j

\* whether the literal's characters stand at offset i
LitAt(t, sets, i) ==
    /\ i + Len(sets) <= Len(t)
    /\ \A k \in 1..Len(sets) : t[i + k] \in sets[k]

(***************************************************************************)
(* The matcher follows every path the backtracking search of re could     *)
(* take.  A path is a record: pos is the 0-based offset reached, gs/ge    *)
(* the span of the capture group closed last (match.lastindex), open the  *)
(* starts of the groups still open, and key the choices made so far, each *)
(* numbered in the order the search tries them (alternative 1 before 2,   *)
(* one more repetition before stopping, a longer run before a shorter).   *)
(* The match re returns is the complete path whose key comes first.       *)
(***************************************************************************)
Choose(s, c) == [s EXCEPT !.key = Append(s.key, c)]
Advance(s, n) == [s EXCEPT !.pos = s.pos + n]

\* key a is tried before key b
KeyBefore(a, b) ==
    \E i \in 1..Len(a) :
        /\ i <= Len(b)
        /\ a[i] < b[i]
        /\ \A j \in 1..(i - 1) : a[j] = b[j]

RECURSIVE Paths(_, _, _)
RECURSIVE SeqPaths(_, _, _, _)
RECURSIVE RepPaths(_, _, _, _)

\* the paths through the syntax tree re that start from the paths in S
Paths(t, re, S) ==
    CASE re.op = "chr" ->
           {Advance(s, 1) : s \in {x \in S : x.pos < Len(t) /\ t[x.pos + 1] \in re.set}}
      [] re.op = "lit" ->
           {Advance(s, Len(re.sets)) : s \in {x \in S : LitAt(t, re.sets, x.pos)}}
      [] re.op = "seq" -> SeqPaths(t, re.items, 1, S)
      [] re.op = "alt" ->
           UNION {Paths(t, re.items[k], {Choose(s, k) : s \in S}) : k \in 1..Len(re.items)}
      [] re.op = "rep" /\ re.r.op = "chr" ->
           \* a greedy run of one character class: the longest run first
           UNION {LET run == RunLength(t, re.r.set, s.pos, IF re.inf THEN Len(t) ELSE re.max)
                  IN  {Advance(Choose(s, run - k), k) : k \in re.min..run} : s \in S}
      [] re.op = "rep" -> RepPaths(t, re, 0, S)
      [] re.op = "grp" ->
           LET inner == Paths(t, re.r, {[s EXCEPT !.open = <<s.pos>> \o s.open] : s \in S})
           IN  {[s EXCEPT !.gs = Head(s.open), !.ge = s.pos, !.open = Tail(s.open)] :
                    s \in inner}
      [] re.op = "wb" -> {s \in S : AtWordBoundary(t, s.pos)}
      [] re.op = "eol" -> {s \in S : AtEnd(t, s.pos)}
      [] re.op = "nlaeol" -> {s \in S : ~AtEnd(t, s.pos)}
      [] re.op = "nlb" -> {s \in S : ~(s.pos > 0 /\ t[s.pos] \in re.set)}
      [] re.op = "nla" -> {s \in S : ~(s.pos < Len(t) /\ t[s.pos + 1] \in re.set)}

\* the items of a concatenation from the k-th on
SeqPaths(t, items, k, S) ==
    IF k > Len(items) \/ S = {} THEN S
    ELSE LET nxt == Paths(t, items[k], S)
         IN  IF nxt = {} THEN {} ELSE SeqPaths(t, items, k + 1, nxt)

\* a greedy repetition after done rounds: one more round is tried before
\* stopping; a round that consumes nothing ends the repetition
RepPaths(t, re, done, S) ==
    LET stops == IF done >= re.min THEN {Choose(s, 1) : s \in S} ELSE {}
        more == IF (re.inf \/ done < re.max) /\ S # {}
                THEN Paths(t, re.r, {Choose(s, 0) : s \in S})
                ELSE {}
    IN  IF more = {} THEN stops
        ELSE stops \cup RepPaths(t, re, done + 1, more)

\* pattern.match at offset i: a record with ok, and when ok the match's
\* start/end and the span gs/ge of its last capture group (-1 when none)
MatchAt(t, re, i) ==
    LET found == Paths(t, re, {[pos |-> i, gs |-> 0 - 1, ge |-> 0 - 1,
                                open |-> << >>, key |-> << >>]})
    IN  IF found = {} THEN NoMatch
        ELSE LET best == CHOOSE s \in found :
                             \A o \in found : o.key = s.key \/ KeyBefore(s.key, o.key)
             IN  [ok |-> TRUE, start |-> i, end |-> best.pos,
                  gs |-> best.gs, ge |-> best.ge]

\* pattern.finditer(t): the non-overlapping matches, scanning left to right;
\* at[i] is the match attempt at offset i, and the scan resumes at the end of
\* each match (one further for an empty match)
RECURSIVE FindIterFrom(_, _)
FindIterFrom(at, i) ==
    LET hits == {j \in DOMAIN at : j >= i /\ at[j].ok}
    IN  IF hits = {} THEN << >>
        ELSE LET j == CHOOSE x \in hits : \A y \in hits : x <= y
             IN  <<at[j]>> \o FindIterFrom(at, IF at[j].end > j THEN at[j].end ELSE j + 1)

FindIter(t, re) ==
    FindIterFrom([i \in 0..Len(t) |-> MatchAt(t, re, i)], 0)

---------------------------------------------------------------------------
(* config.py: the pattern registry and the placeholder tables             *)

D09 == Chr(Digit)
AZ == Chr(Upper)
SepOpt == Opt(Chr({"-"} \cup SpaceCh))

\* r"\b(?:[2-9][0-9]{3}\s?[0-9]{4}\s?[0-9]{4})\b"
PatAadhaar ==
    Cat(<<WordB, Chr({"2", "3", "4", "5", "6", "7", "8", "9"}), Rep(D09, 3, 3),
          Opt(Chr(SpaceCh)), Rep(D09, 4, 4), Opt(Chr(SpaceCh)), Rep(D09, 4, 4), WordB>>)

\* r"\b[A-Z]{5}[0-9]{4}[A-Z]\b"
PatPan == Cat(<<WordB, Rep(AZ, 5, 5), Rep(D09, 4, 4), AZ, WordB>>)

\* r"\b[A-Z][0-9]{7}\b"
PatPassport == Cat(<<WordB, AZ, Rep(D09, 7, 7), WordB>>)

\* r"\b(?:4[0-9]{12}(?:[0-9]{3})?|5[1-5][0-9]{14}|3[47][0-9]{13}|6(?:011|5[0-9]{2})[0-9]{12})\b"
PatCreditCard ==
    Cat(<<WordB,
          Alt(<<Cat(<<Lit(<<"4">>), Rep(D09, 12, 12), Opt(Rep(D09, 3, 3))>>),
                Cat(<<Lit(<<"5">>), Chr({"1", "2", "3", "4", "5"}), Rep(D09, 14, 14)>>),
                Cat(<<Lit(<<"3">>), Chr({"4", "7"}), Rep(D09, 13, 13)>>),
                Cat(<<Lit(<<"6">>),
                      Alt(<<Lit(<<"0", "1", "1">>), Cat(<<Lit(<<"5">>), Rep(D09, 2, 2)>>)>>),
                      Rep(D09, 12, 12)>>)>>),
          WordB>>)

\* r"\b[A-Z0-9._%+-]+@[A-Z0-9.-]+\.[A-Z]{2,}\b", re.IGNORECASE
PatEmail ==
    Cat(<<WordB, RepInf(Chr(Alpha \cup Digit \cup {".", "_", "%", "+", "-"}), 1),
          Lit(<<"@">>), RepInf(Chr(Alpha \cup Digit \cup {".", "-"}), 1),
          Lit(<<".">>), RepInf(Chr(Alpha), 2), WordB>>)

\* r"\b(?:\+?91[-\s]?)?(?:(?<!\d)([6-9][0-9]{2})[-\s]?(\d{3})[-\s]?(\d{4})(?!\d))\b"
PatPhone ==
    Cat(<<WordB,
          Opt(Cat(<<Opt(Lit(<<"+">>)), Lit(<<"9", "1">>), SepOpt>>)),
          NotBehind(Digit),
          Grp(Cat(<<Chr({"6", "7", "8", "9"}), Rep(D09, 2, 2)>>)), SepOpt,
          Grp(Rep(D09, 3, 3)), SepOpt, Grp(Rep(D09, 4, 4)),
          NotAhead(Digit), WordB>>)

\* r"\b(?:(?:25[0-5]|2[0-4][0-9]|[01]?\d?\d)(?:\.(?!$)|$)){4}\b"
PatIp ==
    Cat(<<WordB,
          Rep(Cat(<<Alt(<<Cat(<<Lit(<<"2", "5">>), Chr({"0", "1", "2", "3", "4", "5"})>>),
                          Cat(<<Lit(<<"2">>), Chr({"0", "1", "2", "3", "4"}), D09>>),
                          Cat(<<Opt(Chr({"0", "1"})), Opt(D09), D09>>)>>),
                    Alt(<<Cat(<<Lit(<<".">>), NotAheadEol>>), Eol>>)>>), 4, 4),
          WordB>>)

\* r"\b(?:0?[1-9]|[12][0-9]|3[01])[-/](?:0?[1-9]|1[0-2])[-/](?:19\d{2}|20\d{2})\b"
PatDob ==
    Cat(<<WordB,
          Alt(<<Cat(<<Opt(Lit(<<"0">>)), Chr(Digit \ {"0"})>>),
                Cat(<<Chr({"1", "2"}), D09>>),
                Cat(<<Lit(<<"3">>), Chr({"0", "1"})>>)>>),
          Chr({"-", "/"}),
          Alt(<<Cat(<<Opt(Lit(<<"0">>)), Chr(Digit \ {"0"})>>),
                Cat(<<Lit(<<"1">>), Chr({"0", "1", "2"})>>)>>),
          Chr({"-", "/"}),
          Alt(<<Cat(<<Lit(<<"1", "9">>), Rep(D09, 2, 2)>>),
                Cat(<<Lit(<<"2", "0">>), Rep(D09, 2, 2)>>)>>),
          WordB>>)

\* r"(?i)\b(?:acct|ac|account|a/c|a\\/?c\\/?|ac no\.?|account no\.?|a/c no\.?|act no\.?)[:#\s-]*([0-9]{9,18})\b"
PatBankAccount ==
    Cat(<<WordB,
          Alt(<<LitI(<<"a", "c", "c", "t">>),
                LitI(<<"a", "c">>),
                LitI(<<"a", "c", "c", "o", "u", "n", "t">>),
                LitI(<<"a", "/", "c">>),
                Cat(<<LitI(<<"a", "\\">>), Opt(Lit(<<"/">>)), LitI(<<"c", "\\">>),
                      Opt(Lit(<<"/">>))>>),
                Cat(<<LitI(<<"a", "c", " ", "n", "o">>), Opt(Lit(<<".">>))>>),
                Cat(<<LitI(<<"a", "c", "c", "o", "u", "n", "t", " ", "n", "o">>),
                      Opt(Lit(<<".">>))>>),
                Cat(<<LitI(<<"a", "/", "c", " ", "n", "o">>), Opt(Lit(<<".">>))>>),
                Cat(<<LitI(<<"a", "c", "t", " ", "n", "o">>), Opt(Lit(<<".">>))>>)>>),
          RepInf(Chr({":", "#", "-"} \cup SpaceCh), 0),
          Grp(Rep(D09, 9, 18)), WordB>>)

\* r"\b([A-Z]{4}0[0-9A-Z]{6})\b", re.IGNORECASE
PatIfsc ==
    Cat(<<WordB, Grp(Cat(<<Rep(Chr(Alpha), 4, 4), Lit(<<"0">>),
                           Rep(Chr(Alpha \cup Digit), 6, 6)>>)), WordB>>)

\* r"\b(?:street|st\.|road|rd\.|nagar|colony|layout|phase|block|sector)\b", re.IGNORECASE
PatAddress ==
    Cat(<<WordB,
          Alt(<<LitI(<<"s", "t", "r", "e", "e", "t">>), LitI(<<"s", "t", ".">>),
                LitI(<<"r", "o", "a", "d">>), LitI(<<"r", "d", ".">>),
                LitI(<<"n", "a", "g", "a", "r">>), LitI(<<"c", "o", "l", "o", "n", "y">>),
                LitI(<<"l", "a", "y", "o", "u", "t">>), LitI(<<"p", "h", "a", "s", "e">>),
                LitI(<<"b", "l", "o", "c", "k">>), LitI(<<"s", "e", "c", "t", "o", "r">>)>>),
          WordB>>)

\* r"\b([A-Z][a-z]{2,}\s+[A-Z][a-z]{1,})\b"
PatPersonName ==
    Cat(<<WordB, Grp(Cat(<<AZ, RepInf(Chr(Lower), 2), RepInf(Chr(SpaceCh), 1),
                           AZ, RepInf(Chr(Lower), 1)>>)), WordB>>)

\* PII_PATTERNS, in its insertion order
PII_PATTERNS ==
    << [label |-> "aadhaar", re |-> PatAadhaar],
       [label |-> "pan", re |-> PatPan],
       [label |-> "passport", re |-> PatPassport],
       [label |-> "credit_card", re |-> PatCreditCard],
       [label |-> "email", re |-> PatEmail],
       [label |-> "phone", re |-> PatPhone],
       [label |-> "ip", re |-> PatIp],
       [label |-> "dob", re |-> PatDob],
       [label |-> "bank_account", re |-> PatBankAccount],
       [label |-> "ifsc", re |-> PatIfsc],
       [label |-> "address", re |-> PatAddress],
       [label |-> "person_name", re |-> PatPersonName] >>

\* PLACEHOLDER_VALUES.  The source keeps them in a set; every hit carries the
\* same label and flags, so the iteration order shows in no result.
PLACEHOLDER_VALUES ==
    << <<"0", "0", "0", "0", "0", "0", "0", "0", "0", "0">>,
       <<"1", "1", "1", "1", "1", "1", "1", "1", "1", "1">>,
       <<"1", "2", "3", "4", "5", "6", "7", "8", "9", "0">>,
       <<"9", "9", "9", "9", "9", "9", "9", "9", "9", "9">>,
       <<"A", "B", "C", "D", "E">>,
       <<"a", "b", "c", "d", "e">>,
       <<"X", "X", "X", "X", "X">>,
       <<"x", "x", "x", "x", "x">>,
       <<"N", "/", "A">>,
       <<"l", "o", "r", "e", "m", " ", "i", "p", "s", "u", "m">>,
       <<"t", "e", "s", "t", "@", "e", "x", "a", "m", "p", "l", "e", ".", "c", "o", "m">>,
       <<"j", "o", "h", "n", " ", "d", "o", "e">>,
       <<"a", " ", "n", " ", "o", "t", "h", "e", "r">> >>

\* (?:1111|2222|...|9999)
QuadDigits == Alt([i \in 1..9 |-> Lit(Repeat(DigitChr(i), 4))])
\* (?:aaa|bbb|...|zzz), re.IGNORECASE
TripleLetters == Alt([i \in 1..26 |-> LitI(Repeat(LowerSeq[i], 3))])

PLACEHOLDER_REGEXES ==
    << \* r"\bX{4,}\b", re.IGNORECASE
       Cat(<<WordB, RepInf(Chr({"X", "x"}), 4), WordB>>),
       \* r"\b\d{4}[-\s]?\d{4}[-\s]?\d{4}[-\s]?\d{4}\b"
       Cat(<<WordB, Rep(D09, 4, 4), SepOpt, Rep(D09, 4, 4), SepOpt, Rep(D09, 4, 4),
             SepOpt, Rep(D09, 4, 4), WordB>>),
       \* r"\b(?:1111|...|9999){2,}\b"
       Cat(<<WordB, RepInf(QuadDigits, 2), WordB>>),
       \* r"\b(?:aaa|...|zzz){2,}\b", re.IGNORECASE
       Cat(<<WordB, RepInf(TripleLetters, 2), WordB>>),
       \* r"\bplaceholder\b", re.IGNORECASE
       Cat(<<WordB, LitI(<<"p", "l", "a", "c", "e", "h", "o", "l", "d", "e", "r">>), WordB>>) >>

---------------------------------------------------------------------------
(* detection.py                                                            *)

\* the Entity dataclass; confidence is kept in hundredths
Entity(label, start, end, value, confidence, sensitivity, placeholder) ==
    [label |-> label, start |-> start, end |-> end, value |-> value,
     confidence |-> confidence, sensitivity |-> sensitivity,
     placeholder |-> placeholder]

_score_sensitivity(label) ==
    IF label \in {"aadhaar", "passport", "credit_card", "pan", "bank_account"} THEN "high"
    ELSE IF label \in {"email", "phone", "ip", "dob"} THEN "medium"
    ELSE "low"

\* a slip in _overlaps: the kept annotation's end is compared with the
\* candidate's end
_overlaps_end_slip(a, b) == ~(a.end <= b.start \/ b.end <= a.end)

_overlaps(a, b) == ~(a.end <= b.start \/ b.end <= a.start)

\* the sort key of _deduplicate_entities: (e.start, -(e.end - e.start))
KeyLess(a, b) ==
    \/ a.start < b.start
    \/ a.start = b.start /\ (0 - (a.end - a.start)) < (0 - (b.end - b.start))

\* sorted(): stable, an element goes after every element whose key is not greater
\* an unstable sort: an element goes before the elements of equal key
RECURSIVE InsertSorted_unstable(_, _)
InsertSorted_unstable(e, s) ==
    IF s = << >> THEN <<e>>
    ELSE IF ~KeyLess(Head(s), e) THEN <<e>> \o s
    ELSE <<Head(s)>> \o InsertSorted_unstable(e, Tail(s))

RECURSIVE InsertSorted(_, _)
InsertSorted(e, s) ==
    IF s = << >> THEN <<e>>
    ELSE IF KeyLess(e, Head(s)) THEN <<e>> \o s
    ELSE <<Head(s)>> \o InsertSorted(e, Tail(s))

RECURSIVE SortedByKey(_)
SortedByKey(s) ==
    IF s = << >> THEN << >>
    ELSE InsertSorted(s[Len(s)], SortedByKey(SubSeq(s, 1, Len(s) - 1)))

\* the scan of _deduplicate_entities over the sorted list
RECURSIVE Prune(_, _)
Prune(s, pruned) ==
    IF s = << >> THEN pruned
    ELSE IF \E k \in 1..Len(pruned) : _overlaps(Head(s), pruned[k])
         THEN Prune(Tail(s), pruned)
         ELSE Prune(Tail(s), Append(pruned, Head(s)))

\* a scan that compares a candidate with the one just before it in the
\* sorted list only, kept or not
_deduplicate_entities_chain(ents) ==
    LET s == SortedByKey(ents)
        kept == {i \in 1..Len(s) : i = 1 \/ ~_overlaps(s[i], s[i - 1])}
    IN  [n \in 1..Cardinality(kept) |->
            s[CHOOSE i \in kept : Cardinality({j \in kept : j < i}) = n - 1]]

_deduplicate_entities(ents) == Prune(SortedByKey(ents), << >>)

PlaceholderEntity(t, start, end) ==
    Entity("placeholder", start, end, Slice(t, start, end), 40, "low", TRUE)

\* the hits of the first k literals of PLACEHOLDER_VALUES
RECURSIVE LiteralHits(_, _)
LiteralHits(t, k) ==
    IF k = 0 THEN << >>
    ELSE LET value == PLACEHOLDER_VALUES[k]
             idx == Find(LowerStr(t), LowerStr(value))
         IN  LiteralHits(t, k - 1)
             \o (IF idx # 0 - 1
                 THEN <<PlaceholderEntity(t, idx, idx + Len(value))>> ELSE << >>)

\* the hits of the first k regexes of PLACEHOLDER_REGEXES
RECURSIVE PlaceholderRegexHits(_, _)
PlaceholderRegexHits(t, k) ==
    IF k = 0 THEN << >>
    ELSE LET ms == FindIter(t, PLACEHOLDER_REGEXES[k])
         IN  PlaceholderRegexHits(t, k - 1)
             \o [i \in 1..Len(ms) |-> PlaceholderEntity(t, ms[i].start, ms[i].end)]

detect_placeholders(t) ==
    LiteralHits(t, Len(PLACEHOLDER_VALUES))
    \o PlaceholderRegexHits(t, Len(PLACEHOLDER_REGEXES))

\* one entity of detect_regex: start/end are the whole match's, value is
\* group(0), or for bank_account the last capture group
PatternEntity(t, label, mt) ==
    LET value == IF label = "bank_account" /\ mt.gs # 0 - 1
                 THEN Slice(t, mt.gs, mt.ge)
                 ELSE Slice(t, mt.start, mt.end)
    IN  Entity(label, mt.start, mt.end, value,
               IF label # "person_name" THEN 70 ELSE 40,
               _score_sensitivity(label), FALSE)

\* the hits of the first k rules of PII_PATTERNS
RECURSIVE PatternHits(_, _)
PatternHits(t, k) ==
    IF k = 0 THEN << >>
    ELSE LET ms == FindIter(t, PII_PATTERNS[k].re)
         IN  PatternHits(t, k - 1)
             \o [i \in 1..Len(ms) |-> PatternEntity(t, PII_PATTERNS[k].label, ms[i])]

\* the candidate list detect_regex builds before resolving it
RegexCandidates(t) == PatternHits(t, Len(PII_PATTERNS)) \o detect_placeholders(t)

detect_regex(t) == _deduplicate_entities(RegexCandidates(t))

\* the label detect_nlp gives a spaCy entity type ("" when it is dropped)
NlpLabel(label_) ==
    IF label_ \in {"PERSON"} THEN "person_name"
    ELSE IF label_ \in {"GPE", "LOC"} THEN "address"
    ELSE IF label_ \in {"DATE"} THEN "dob"
    ELSE ""

\* the candidate list detect_nlp builds from doc.ents; nlp is the loaded
\* model's answer for t, or the unavailable adapter
RECURSIVE NlpCandidates(_, _)
NlpCandidates(t, ents) ==
    IF ents = << >> THEN << >>
    ELSE LET ent == Head(ents)
             label == NlpLabel(ent.label_)
         IN  (IF label # ""
              THEN <<Entity(label, ent.start_char, ent.end_char,
                            Slice(t, ent.start_char, ent.end_char), 55,
                            _score_sensitivity(label), FALSE)>>
              ELSE << >>)
             \o NlpCandidates(t, Tail(ents))

detect_nlp(t, nlp) ==
    IF ~nlp.available THEN << >>
    ELSE _deduplicate_entities(NlpCandidates(t, nlp.ents))

\* hybrid mode giving nothing when the adapter is unavailable
CombineHits_needs_nlp(regex_hits, t, mode, nlp) ==
    IF mode = "regex" THEN regex_hits
    ELSE IF ~nlp.available THEN << >>
    ELSE _deduplicate_entities(regex_hits \o detect_nlp(t, nlp))

\* detect_pii once regex_hits = detect_regex(t) is known
CombineHits(regex_hits, t, mode, nlp) ==
    IF mode = "regex" THEN regex_hits
    ELSE _deduplicate_entities(regex_hits \o detect_nlp(t, nlp))

detect_pii(t, mode, nlp) == CombineHits(detect_regex(t), t, mode, nlp)

---------------------------------------------------------------------------
(* detection.py: risk_score                                                *)

\* the weights table of risk_score; weights.get(label, 1)
Weight(label) ==
    CASE label = "aadhaar" -> 35
      [] label = "pan" -> 25
      [] label = "passport" -> 30
      [] label = "credit_card" -> 35
      [] label = "bank_account" -> 30
      [] label = "email" -> 5
      [] label = "phone" -> 10
      [] label = "ip" -> 1
      [] label = "dob" -> 5
      [] label = "person_name" -> 2
      [] label = "address" -> 5
      [] label = "ifsc" -> 5
      [] OTHER -> 1

\* type_counts.get(label, 0)
CountOf(type_counts, label) ==
    IF label \in DOMAIN type_counts THEN type_counts[label] ELSE 0

\* every occurrence counted in full
Contribution_flat(count, w) == 10 * w

\* What the count-th occurrence of a label of weight w adds to the score.  The
\* score is kept in tenths, so that w, w * 0.5 and w * 0.1 are the integers
\* 10w, 5w and w.
Contribution(count, w) ==
    IF count = 1 THEN 10 * w
    ELSE IF count = 2 THEN 5 * w
    ELSE w

\* the loop of risk_score over the entities
RECURSIVE ScoreLoop(_, _)
ScoreLoop(ents, acc) ==
    IF ents = << >> THEN acc
    ELSE LET ent == Head(ents)
         IN  IF ent.placeholder
             THEN ScoreLoop(Tail(ents),
                            [acc EXCEPT !.placeholder_count = acc.placeholder_count + 1])
             ELSE LET count == CountOf(acc.type_counts, ent.label) + 1
                      w == Weight(ent.label)
                      add == Contribution(count, w)
                  IN  ScoreLoop(Tail(ents),
                                [score |-> acc.score + add,
                                 type_counts |->
                                     [l \in DOMAIN acc.type_counts \cup {ent.label} |->
                                         IF l = ent.label THEN count ELSE acc.type_counts[l]],
                                 placeholder_count |-> acc.placeholder_count,
                                 unique_types |-> acc.unique_types \cup {ent.label}])

ScoreAcc(ents) ==
    ScoreLoop(ents, [score |-> 0, type_counts |-> << >>, placeholder_count |-> 0,
                     unique_types |-> {}])

\* the score, in tenths, risk_score holds when its loop ends
RunningScore(ents) == ScoreAcc(ents).score

\* the floor with credit_card left out of the critical types
CriticalFloor_no_card(score, unique_types) ==
    IF unique_types \cap {"aadhaar", "passport", "bank_account"} # {}
    THEN (IF score > 650 THEN score ELSE 650)
    ELSE score

\* score = max(score, 65) when a critical type is present
CriticalFloor(score, unique_types) ==
    IF unique_types \cap {"aadhaar", "credit_card", "passport", "bank_account"} # {}
    THEN (IF score > 650 THEN score ELSE 650)
    ELSE score

\* the two combination boosters
Boosted(score, unique_types) ==
    LET has_identity == "person_name" \in unique_types /\ "dob" \in unique_types
        has_contact == unique_types \cap {"address", "phone", "email"} # {}
        has_financial == unique_types \cap {"credit_card", "bank_account"} # {}
        s1 == IF has_identity /\ has_contact THEN score + 250 ELSE score
    IN  IF has_financial /\ "person_name" \in unique_types THEN s1 + 200 ELSE s1

\* the floor applied to the boosted score
FloorThenBoost_swapped(score, unique_types) ==
    CriticalFloor(Boosted(score, unique_types), unique_types)

\* steps 2 and 3 of risk_score: the floor, then the boosters on top of it
FloorThenBoost(score, unique_types) ==
    Boosted(CriticalFloor(score, unique_types), unique_types)

\* a half always rounded up
Round_half_up(tenths) == (tenths + 5) \div 10

\* round() of a score in tenths: to the nearest integer, a half to the even one
Round(tenths) ==
    LET q == tenths \div 10
        r == tenths % 10
    IN  IF r < 5 THEN q
        ELSE IF r > 5 THEN q + 1
        ELSE IF q % 2 = 0 THEN q ELSE q + 1

risk_score(ents) ==
    LET acc == ScoreAcc(ents)
        score == FloorThenBoost(acc.score, acc.unique_types)
        normalized == IF Round(score) > 100 THEN 100 ELSE Round(score)
        types == DOMAIN acc.type_counts
    IN  [score |-> normalized,
         bucket |-> IF normalized >= 80 THEN "critical"
                    ELSE IF normalized >= 50 THEN "high"
                    ELSE IF normalized >= 20 THEN "medium"
                    ELSE "low",
         counts |-> acc.type_counts,
         placeholders |-> acc.placeholder_count,
         compliance |->
             [gdpr |-> types \cap {"person_name", "address", "email", "ip", "dob"} # {},
              dpdp |-> types \cap {"aadhaar", "phone", "email", "pan", "bank_account"} # {},
              hipaa |-> types \cap {"person_name", "address", "dob"} # {},
              pci_dss |-> types \cap {"credit_card"} # {}]]

---------------------------------------------------------------------------
(* masking.py                                                              *)

\* FULL_TOKENS
FULL_TOKENS ==
    [email |-> <<"[", "E", "M", "A", "I", "L", "]">>,
     phone |-> <<"[", "P", "H", "O", "N", "E", "]">>,
     credit_card |-> <<"[", "C", "A", "R", "D", "]">>,
     bank_account |-> <<"[", "B", "A", "N", "K", "_", "A", "C", "C", "O", "U", "N", "T", "]">>,
     aadhaar |-> <<"[", "A", "A", "D", "H", "A", "A", "R", "]">>,
     pan |-> <<"[", "P", "A", "N", "]">>,
     passport |-> <<"[", "P", "A", "S", "S", "P", "O", "R", "T", "]">>,
     person_name |-> <<"[", "N", "A", "M", "E", "]">>,
     address |-> <<"[", "A", "D", "D", "R", "E", "S", "S", "]">>,
     placeholder |-> <<"[", "P", "L", "A", "C", "E", "H", "O", "L", "D", "E", "R", "]">>]

REDACTED == <<"[", "R", "E", "D", "A", "C", "T", "E", "D", "]">>

_generic_mask(value, label) ==
    IF label # "" /\ label \in DOMAIN FULL_TOKENS THEN FULL_TOKENS[label] ELSE REDACTED

\* the loop of _mask_digits_keep_tail over reversed(value)
RECURSIVE MaskTailLoop(_, _, _, _)
MaskTailLoop(rev, keep, digits_seen, out_chars) ==
    IF rev = << >> THEN out_chars
    ELSE LET ch == Head(rev)
         IN  IF IsDigit(ch)
             THEN MaskTailLoop(Tail(rev), keep, digits_seen + 1,
                               Append(out_chars,
                                      IF digits_seen + 1 <= keep THEN ch ELSE "*"))
             ELSE MaskTailLoop(Tail(rev), keep, digits_seen, Append(out_chars, ch))

\* the scan run from the front of the value
_mask_digits_keep_head(value, keep) ==
    MaskTailLoop(value, keep, 0, << >>)

_mask_digits_keep_tail(value, keep) ==
    Reverse(MaskTailLoop(Reverse(value), keep, 0, << >>))

_mask_email(value) ==
    LET at == Find(value, <<"@">>)
    IN  IF at = 0 - 1 THEN _generic_mask(value, "email")
        ELSE LET user == Slice(value, 0, at)
                 domain == Slice(value, at + 1, Len(value))
                 masked_user == IF user # << >>
                                THEN Slice(user, 0, 1) \o <<"*", "*", "*">>
                                ELSE <<"*", "*", "*">>
             IN  masked_user \o <<"@">> \o domain

---------------------------------------------------------------------------
(* masking.py: the synthetic generator.  The counter is a Python int of   *)
(* unbounded size; it is kept as its decimal digits, str(counter).        *)

\* a counter that hands out its value without moving on
Incr_stuck(cs) == cs

\* counter + 1 on decimal digits
Incr(cs) ==
    LET n == Len(cs)
        nines == {k \in 0..n : \A i \in (n - k + 1)..n : cs[i] = "9"}
        k == CHOOSE x \in nines : \A y \in nines : y <= x
    IN  IF k = n THEN <<"1">> \o Repeat("0", n)
        ELSE [i \in 1..n |-> IF i < n - k THEN cs[i]
                             ELSE IF i = n - k THEN DigitChr(DigitVal(cs[i]) + 1)
                             ELSE "0"]

\* counter % m on decimal digits
RECURSIVE ModFrom(_, _, _, _)
ModFrom(cs, i, m, acc) ==
    IF i > Len(cs) THEN acc
    ELSE ModFrom(cs, i + 1, m, (acc * 10 + DigitVal(cs[i])) % m)

Mod(cs, m) == ModFrom(cs, 1, m, 0)

\* f"{counter:0Nd}": zero-padded to at least width characters, never cut
Fmt(cs, width) ==
    IF Len(cs) >= width THEN cs ELSE Repeat("0", width - Len(cs)) \o cs

_pad_digits(cs, length) ==
    LET s == IF Len(cs) >= length THEN cs ELSE Repeat("0", length - Len(cs)) \o cs
    IN  IF Len(s) > length THEN Slice(s, Len(s) - length, Len(s)) ELSE s

\* the loop of _luhn_check_digit over the reversed digits
RECURSIVE LuhnLoop(_, _, _)
LuhnLoop(digits, idx, total) ==
    IF idx > Len(digits) THEN total
    ELSE LET d == DigitVal(digits[idx])
             dd == IF (idx - 1) % 2 = 0
                   THEN (IF d * 2 > 9 THEN d * 2 - 9 ELSE d * 2)
                   ELSE d
         IN  LuhnLoop(digits, idx + 1, total + dd)

\* the total's last digit itself as the check digit
_luhn_check_digit_plain(number_without_check) ==
    LET total == LuhnLoop(Reverse(number_without_check), 1, 0)
    IN  <<DigitChr(total % 10)>>

_luhn_check_digit(number_without_check) ==
    LET total == LuhnLoop(Reverse(number_without_check), 1, 0)
    IN  <<DigitChr((10 - (total % 10)) % 10)>>

\* the loop of _regroup_like_original over the original's characters; used is
\* how many characters the iterator over synth has handed out
RECURSIVE RegroupLoop(_, _, _, _)
RegroupLoop(synth, original, used, rebuilt) ==
    IF original = << >> THEN rebuilt \o Slice(synth, used, Len(synth))
    ELSE LET ch == Head(original)
         IN  IF IsDigit(ch)
             THEN RegroupLoop(synth, Tail(original),
                              IF used < Len(synth) THEN used + 1 ELSE used,
                              IF used < Len(synth) THEN Append(rebuilt, synth[used + 1])
                              ELSE rebuilt)
             ELSE RegroupLoop(synth, Tail(original), used, Append(rebuilt, ch))

_regroup_like_original(synth, original) ==
    LET candidate == RegroupLoop(synth, original, 0, << >>)
    IN  IF \E i \in 1..Len(candidate) : IsDigit(candidate[i]) THEN candidate ELSE synth

_synthetic_card(cs, original) ==
    LET base == <<"4">> \o _pad_digits(cs, 15 - 1)
        number == base \o _luhn_check_digit(base)
    IN  _regroup_like_original(number, original)

_synthetic_bank_account(cs, original) ==
    LET n == Len(DigitsOf(original))
        wanted == IF n = 0 THEN 12 ELSE n
        capped == IF wanted > 18 THEN 18 ELSE wanted
        length == IF capped < 9 THEN 9 ELSE capped
    IN  _regroup_like_original(_pad_digits(cs, length), original)

_synthetic_aadhaar(cs) == <<DigitChr(2 + Mod(cs, 8))>> \o _pad_digits(cs, 11)

_synthetic_pan(cs) ==
    <<"A", "B", "C", "D", "E">> \o _pad_digits(cs, 4) \o <<UpperSeq[1 + Mod(cs, 26)]>>

_synthetic_passport(cs) == <<UpperSeq[13 + Mod(cs, 10)]>> \o _pad_digits(cs, 7)

_synthetic_phone(cs) == <<"+", "9", "1", "-", "9">> \o _pad_digits(cs, 9)

_synthetic_email(cs, original) ==
    LET at == Find(original, <<"@">>)
        rest == IF at = 0 - 1 THEN << >> ELSE Slice(original, at + 1, Len(original))
        domain == IF rest # << >> THEN rest
                  ELSE <<"e", "x", "a", "m", "p", "l", "e", ".", "i", "n">>
    IN  <<"u", "s", "e", "r">> \o Fmt(cs, 4) \o <<"@">> \o domain

\* label.upper() for the labels that have no rule of their own in _synthetic
UpperLabel(label) ==
    CASE label = "ip" -> <<"I", "P">>
      [] label = "dob" -> <<"D", "O", "B">>
      [] label = "ifsc" -> <<"I", "F", "S", "C">>
      [] OTHER -> <<"X">>

\* _synthetic for the counter value cs that next(_synthetic_counter) returned
_synthetic(value, label, cs) ==
    CASE label = "credit_card" -> _synthetic_card(cs, value)
      [] label = "bank_account" -> _synthetic_bank_account(cs, value)
      [] label = "aadhaar" -> _synthetic_aadhaar(cs)
      [] label = "pan" -> _synthetic_pan(cs)
      [] label = "passport" -> _synthetic_passport(cs)
      [] label = "phone" -> _synthetic_phone(cs)
      [] label = "email" -> _synthetic_email(cs, value)
      [] label = "person_name" -> <<"P", "e", "r", "s", "o", "n", " ">> \o Fmt(cs, 3)
      [] label = "address" -> <<"A", "d", "d", "r", "e", "s", "s", " ">> \o Fmt(cs, 3)
      [] label = "placeholder" -> <<"P", "H", "_">> \o Fmt(cs, 4)
      [] OTHER -> <<"S", "Y", "N", "_">> \o UpperLabel(label) \o <<"_">> \o cs

\* mask_value; cs is the value the synthetic counter would hand out next
mask_value(value, label, mode, cs) ==
    IF mode = "partial"
    THEN (IF label \in {"credit_card", "bank_account", "aadhaar"}
          THEN _mask_digits_keep_tail(value, 4)
          ELSE IF label = "phone" THEN _mask_digits_keep_tail(value, 3)
          ELSE IF label = "email" THEN _mask_email(value)
          ELSE _generic_mask(value, label))
    ELSE IF mode = "synthetic" THEN _synthetic(value, label, cs)
    ELSE _generic_mask(value, label)

\* sorted(entities, key=lambda e: e.start, reverse=True): stable, so of two
\* entities with the same start the one earlier in the list stays first
RECURSIVE InsertByStartDesc(_, _)
InsertByStartDesc(e, s) ==
    IF s = << >> THEN <<e>>
    ELSE IF e.start > Head(s).start THEN <<e>> \o s
    ELSE <<Head(s)>> \o InsertByStartDesc(e, Tail(s))

\* the entities taken in the order given
SortedByStartDesc_unsorted(s) == s

RECURSIVE SortedByStartDesc(_)
SortedByStartDesc(s) ==
    IF s = << >> THEN << >>
    ELSE InsertByStartDesc(s[Len(s)], SortedByStartDesc(SubSeq(s, 1, Len(s) - 1)))

\* the allow-list ignored
Skipped_no_allow_list(ent, include_placeholders, allowed_labels) ==
    ent.placeholder /\ ~include_placeholders

\* whether apply_masks passes over the entity
Skipped(ent, include_placeholders, allowed_labels) ==
    \/ allowed_labels # {} /\ ent.label \notin allowed_labels
    \/ ent.placeholder /\ ~include_placeholders

\* the loop of apply_masks; st holds the text so far and the synthetic counter
RECURSIVE MaskLoop(_, _, _, _, _)
MaskLoop(ents, mode, include_placeholders, allowed_labels, st) ==
    IF ents = << >> THEN st
    ELSE LET ent == Head(ents)
         IN  IF Skipped(ent, include_placeholders, allowed_labels)
             THEN MaskLoop(Tail(ents), mode, include_placeholders, allowed_labels, st)
             ELSE LET replacement == mask_value(ent.value, ent.label, mode, st.counter)
                  IN  MaskLoop(Tail(ents), mode, include_placeholders, allowed_labels,
                               [masked |-> Slice(st.masked, 0, ent.start) \o replacement
                                           \o Slice(st.masked, ent.end, Len(st.masked)),
                                counter |-> IF mode = "synthetic" THEN Incr(st.counter)
                                            ELSE st.counter])

\* apply_masks: the masked text, and the synthetic counter after the call
apply_masks(t, ents, mode, include_placeholders, allowed_labels, cs) ==
    MaskLoop(SortedByStartDesc(ents), mode, include_placeholders, allowed_labels,
             [masked |-> t, counter |-> cs])

---------------------------------------------------------------------------
(* app.py: _filter_entities                                                *)

\* min_confidence is in hundredths, as Entity.confidence is
_filter_entities(ents, min_confidence) ==
    IF min_confidence <= 0 THEN ents
    ELSE SelectSeq(ents, LAMBDA e : e.confidence >= min_confidence)

---------------------------------------------------------------------------
(* Bounds and input sets                                                   *)

\* sequences over S of length at most n
SeqsUpTo(S, n) == UNION {[1..k -> S] : k \in 0..n}

MaxCands == 3        \* candidates in one list given to the resolver
MaxPos == 3          \* offsets of the resolver's candidates are 0..MaxPos
MaxEnts == 4         \* annotations in one set given to risk_score
MaxValueLen == 6     \* length of the enumerated values given to mask_value
MaxRounds == 1       \* times a masked output is submitted again
MaxThreads == 2      \* apply_masks calls running at the same time

NoReport == [score |-> 0, bucket |-> "low", counts |-> << >>, placeholders |-> 0,
             compliance |-> [gdpr |-> FALSE, dpdp |-> FALSE, hipaa |-> FALSE,
                             pci_dss |-> FALSE]]

NoCfg == [op |-> "none"]

---------------------------------------------------------------------------
(* The Overlap Resolver on arbitrary candidate lists                       *)

ResolveText == Repeat("a", MaxPos)

\* the sources a candidate can come from: a pattern-registry hit, a
\* placeholder hit, an NLP hit
CandKinds ==
    { [label |-> "email", confidence |-> 70, placeholder |-> FALSE],
      [label |-> "placeholder", confidence |-> 40, placeholder |-> TRUE],
      [label |-> "person_name", confidence |-> 55, placeholder |-> FALSE] }

Cands ==
    { Entity(k.label, ab[1], ab[2], Slice(ResolveText, ab[1], ab[2]), k.confidence,
             _score_sensitivity(k.label), k.placeholder) :
        k \in CandKinds,
        ab \in {x \in (0..MaxPos) \X (0..MaxPos) : x[1] < x[2]} }

InitResolve ==
    /\ phase = "input"
    /\ cfg = [op |-> "_deduplicate_entities"]
    /\ text = ResolveText
    /\ \E n \in 0..MaxCands : raw \in [1..n -> Cands]
    /\ entities = << >>
    /\ report = NoReport
    /\ masked = << >>
    /\ counter = <<"1">>
    /\ round = 0

Resolve ==
    /\ phase = "input"
    /\ cfg.op = "_deduplicate_entities"
    /\ phase' = "resolved"
    /\ entities' = _deduplicate_entities(raw)
    /\ UNCHANGED <<cfg, text, raw, report, masked, counter, round>>

NextResolve == Resolve

SpecResolve == InitResolve /\ [][NextResolve]_vars

---------------------------------------------------------------------------
(* risk_score on arbitrary annotation sets                                 *)

\* the annotations a set is drawn from: a label with the flags detection
\* gives it, and a credit_card annotation flagged as a placeholder
ScoreKinds ==
    { [label |-> l, placeholder |-> FALSE] :
        l \in {"credit_card", "bank_account", "email", "phone", "person_name",
               "dob", "ip", "address"} }
    \cup { [label |-> "placeholder", placeholder |-> TRUE],
           [label |-> "credit_card", placeholder |-> TRUE] }

ScoreEnts ==
    { Entity(k.label, 0, 1, <<"a">>, IF k.placeholder THEN 40 ELSE 70,
             _score_sensitivity(k.label), k.placeholder) : k \in ScoreKinds }

InitScore ==
    /\ phase = "input"
    /\ cfg = [op |-> "risk_score"]
    /\ text = <<"a">>
    /\ raw = << >>
    /\ entities \in SeqsUpTo(ScoreEnts, MaxEnts)
    /\ report = NoReport
    /\ masked = << >>
    /\ counter = <<"1">>
    /\ round = 0

Score ==
    /\ phase = "input"
    /\ cfg.op = "risk_score"
    /\ phase' = "scored"
    /\ report' = risk_score(entities)
    /\ UNCHANGED <<cfg, text, raw, entities, masked, counter, round>>

NextScore == Score

SpecScore == InitScore /\ [][NextScore]_vars

---------------------------------------------------------------------------
(* mask_value on arbitrary values                                          *)

\* values of every shape up to MaxValueLen: two digits, a separator
ShortValues == SeqsUpTo({"1", "2", "-"}, MaxValueLen)

\* originals of a credit_card annotation: few digit slots, none, exactly 16,
\* and more than 16
CardOriginals ==
    SeqsUpTo({"7", "-", "x"}, 3)
    \cup { Repeat("4", 16), Repeat("5", 17), Repeat("6", 19),
           <<"4", "1", "1", "1", "-", "1", "1", "1", "1", "-", "1", "1", "1", "1",
             "-", "1", "1", "1", "1">>,
           <<"4", "1", "1", "1", " ", "1", "1", "1", "1", " ", "1", "1", "1", "1",
             " ", "1", "1", "1", "1", " ", "1", "1">> }

\* values of the synthetic counter: small, and wider than the 14 digits
\* _synthetic_card keeps
CounterValues ==
    { <<"1">>, <<"2">>, <<"9">>, <<"1", "0">>, <<"9", "9">>, <<"1", "2", "3", "4", "5">>,
      Repeat("9", 14), <<"1">> \o Repeat("0", 14),
      <<"1", "2", "3", "4", "5", "6", "7", "8", "9", "0", "1", "2", "3", "4", "5", "6">>,
      <<"1", "0", "0", "0">>, <<"1", "0", "0", "0", "1">>,
      <<"1", "3", "0", "0", "0", "1">>, <<"1", "0", "0", "0", "0", "0", "0", "1">>,
      <<"1", "0", "0", "0", "0", "0", "0", "0", "0", "1">>,
      <<"1", "0", "0", "0", "0", "0", "0", "0", "0", "0", "0", "1">> }

\* whether the counter value a was handed out before b
HandedOutBefore(a, b) ==
    \/ Len(a) < Len(b)
    \/ /\ Len(a) = Len(b)
       /\ \E i \in 1..Len(a) :
              /\ DigitVal(a[i]) < DigitVal(b[i])
              /\ \A j \in 1..(i - 1) : a[j] = b[j]

\* values of the labels _synthetic has a rule for, and of one it has none for
SyntheticInputs ==
    { <<"pan", <<"A", "B", "C", "D", "E", "1", "2", "3", "4", "F">>>>,
      <<"passport", <<"M", "1", "2", "3", "4", "5", "6", "7">>>>,
      <<"phone", <<"9", "8", "7", "6", "5", "4", "3", "2", "1", "0">>>>,
      <<"aadhaar", <<"2", "3", "4", "5", "6", "7", "8", "9", "0", "1", "2", "3">>>>,
      <<"bank_account", <<"1", "2", "3", "4", "5", "6", "7", "8", "9">>>>,
      <<"email", <<"a", "@", "b", ".", "c", "o">>>>,
      <<"person_name", <<"J", "o", "h", "n", " ", "S", "m", "i", "t", "h">>>>,
      <<"address", <<"r", "o", "a", "d">>>>,
      <<"placeholder", <<"X", "X", "X", "X">>>>,
      <<"ip", <<"1", ".", "2", ".", "3", ".", "4">>>> }

ValueInputs ==
    { [op |-> "mask_value", value |-> v, label |-> "credit_card", mode |-> "synthetic",
        used |-> << >>] :
        v \in CardOriginals }
    \cup { [op |-> "mask_value", value |-> v, label |-> l, mode |-> "partial",
             used |-> << >>] :
             v \in ShortValues, l \in {"credit_card", "bank_account", "aadhaar", "phone"} }
    \cup { [op |-> "mask_value", value |-> v, label |-> l, mode |-> "partial",
             used |-> << >>] :
             v \in CardOriginals, l \in {"credit_card", "phone"} }
    \cup { [op |-> "mask_value", value |-> x[2], label |-> x[1], mode |-> "synthetic",
             used |-> << >>] :
             x \in SyntheticInputs }

InitValue ==
    /\ phase = "input"
    /\ cfg \in ValueInputs
    /\ text = << >>
    /\ raw = << >>
    /\ entities = << >>
    /\ report = NoReport
    /\ masked = << >>
    /\ counter \in (IF cfg.mode = "synthetic" THEN CounterValues ELSE {<<"1">>})
    /\ round = 0

\* one call of mask_value; cfg.used records the counter value it was given
MaskValue ==
    /\ phase = "input"
    /\ cfg.op = "mask_value"
    /\ phase' = "returned"
    /\ masked' = mask_value(cfg.value, cfg.label, cfg.mode, counter)
    /\ counter' = IF cfg.mode = "synthetic" THEN Incr(counter) ELSE counter
    /\ cfg' = [cfg EXCEPT !.used = counter]
    /\ UNCHANGED <<text, raw, entities, report, round>>

\* The process goes on: other synthetic replacements take counter values,
\* and the same value comes to be replaced again.  raw keeps the replacement
\* made before and the counter value it was made with.
LaterCall ==
    /\ phase = "returned"
    /\ cfg.op = "mask_value"
    /\ cfg.mode = "synthetic"
    /\ round < MaxRounds
    /\ counter' \in {c \in CounterValues : HandedOutBefore(cfg.used, c)}
    /\ raw' = Append(raw, [label |-> cfg.label, obtained |-> cfg.used,
                           replacement |-> masked])
    /\ phase' = "input"
    /\ masked' = << >>
    /\ round' = round + 1
    /\ UNCHANGED <<cfg, text, entities, report>>

NextValue == MaskValue \/ LaterCall

SpecValue == InitValue /\ [][NextValue]_vars

---------------------------------------------------------------------------
(* The request handlers of app.py on one text                              *)

Texts ==
    { <<"a", "c", " ", "1", "2", "3", "4", "5", "6", "7", "8", "9">>,   \* ac 123456789
      <<"a", "c", "c", "o", "u", "n", "t", " ", "n", "o", ":", " ", "1", "2", "3", "4", "5", "6", "7", "8", "9">>,   \* account no: 123456789
      <<"E", "m", "a", "i", "l", ":", " ", "t", "e", "s", "t", "@", "e", "x", "a", "m", "p", "l", "e", ".", "c", "o", "m">>,   \* Email: test@example.com
      <<"X", "X", "X", "X", " ", "h", "e", "r", "e">>,   \* XXXX here
      <<"u", "s", "e", "r", "0", "0", "0", "1", "@", "e", "x", "a", "m", "p", "l", "e", ".", "c", "o", "m">>,   \* user0001@example.com
      <<"a", "@", "b", ".", "c", "o", " ", "9", "8", "7", "6", "5", "4", "3", "2", "1", "0">>,   \* a@b.co 9876543210
      <<"J", "o", "h", "n", " ", "S", "m", "i", "t", "h">>,   \* John Smith
      <<"M", "a", "r", "y", " ", "A", "n", "n", " ", "S", "m", "i", "t", "h", " ", "R", "o", "a", "d">>,   \* Mary Ann Smith Road
      <<"p", "l", "a", "c", "e", "h", "o", "l", "d", "e", "r">>,   \* placeholder
      <<"4", "1", "1", "1", "1", "1", "1", "1", "1", "1", "1", "1", "1", "1", "1", "1">>,   \* 4111111111111111
      <<"A", "B", "C", "D", "E", "1", "2", "3", "4", "F">>,   \* ABCDE1234F
      <<"M", "1", "2", "3", "4", "5", "6", "7", " ", "1", "2", "/", "0", "5", "/", "1", "9", "9", "0">>,   \* M1234567 12/05/1990
      <<"1", ".", "2", ".", "3", ".", "4">>,   \* 1.2.3.4
      <<"n", "o", " ", "p", "i", "i">>,   \* no pii
      <<"x", " ", "1", "1", "1", "1", "1", "1", "1", "1", "1", "1", " ", "y">>,   \* x 1111111111 y
      <<"+", "9", "1", "-", "9", "0", "0", "0", "0", "0", "0", "0", "0", "1">>,   \* +91-9000000001
      <<"R", "a", "v", "i", " ", "K", "u", "m", "a", "r", " ", "a", "@", "b", ".", "c", "o">>,   \* Ravi Kumar a@b.co
      <<"P", "e", "r", "s", "o", "n", " ", "0", "0", "1">>,   \* Person 001
      <<"a", "/", "c", "#", "1", "2", "3", "4", "5", "6", "7", "8", "9", "0", " ", "S", "B", "I", "N", "0", "1", "2", "3", "4", "5", "6">> }   \* a/c#1234567890 SBIN0123456

\* what the NLP adapter answers for a text: it is not loaded, or it returns
\* doc.ents, here at most one entity at the head of the text
NlpAnswers(t) ==
    { [available |-> FALSE, ents |-> << >>],
      [available |-> TRUE, ents |-> << >>] }
    \cup { [available |-> TRUE,
            ents |-> <<[label_ |-> e[1], start_char |-> 0,
                        end_char |-> IF Len(t) < e[2] THEN Len(t) ELSE e[2]]>>] :
             e \in {<<"PERSON", 10>>, <<"PERSON", 14>>, <<"ORG", 4>>} }

MaskSettings ==
    { [masking |-> m, include_placeholders |-> ip, allowed_labels |-> al] :
        m \in {"full", "partial", "synthetic"}, ip \in BOOLEAN,
        al \in {{}, {"unknown"}, {"email"}, {"email", "unknown"}} }

InitApi ==
    /\ phase = "idle"
    /\ cfg = NoCfg
    /\ text \in Texts
    /\ raw = << >>
    /\ entities = << >>
    /\ report = NoReport
    /\ masked = << >>
    /\ counter = <<"1">>
    /\ round = 0

\* the request's mode and min_confidence, and the adapter's answer for the text
Requests(t) ==
    { [mode |-> "regex", min_confidence |-> mc, nlp |-> [available |-> FALSE, ents |-> << >>]] :
        mc \in {0, 50} }
    \cup { [mode |-> "hybrid", min_confidence |-> mc, nlp |-> a] :
             mc \in {0}, a \in NlpAnswers(t) }

\* POST /api/detect; regex_hits is detect_regex(text), which detect_pii
\* computes first whatever the request says
api_detect(rq, regex_hits) ==
    /\ phase = "idle"
    /\ round > 0 => (rq.mode = cfg.mode /\ rq.min_confidence = cfg.min_confidence)
    /\ LET found == CombineHits(regex_hits, text, rq.mode, rq.nlp)
           filtered_entities == _filter_entities(found, rq.min_confidence)
       IN  /\ raw' = found
           /\ entities' = filtered_entities
           /\ report' = risk_score(filtered_entities)
    /\ phase' = "detected"
    /\ cfg' = [op |-> "api_detect", mode |-> rq.mode, min_confidence |-> rq.min_confidence,
               nlp |-> rq.nlp]
    /\ UNCHANGED <<text, masked, counter, round>>

\* POST /api/mask; regex_hits as for api_detect
api_mask(rq, regex_hits) ==
    /\ phase = "idle"
    /\ round > 0 => (rq.mode = cfg.mode /\ rq.min_confidence = cfg.min_confidence)
    /\ LET found == CombineHits(regex_hits, text, rq.mode, rq.nlp)
           filtered_entities == _filter_entities(found, rq.min_confidence)
       IN  \E ms \in MaskSettings :
             /\ round > 0 => ms = cfg.settings
             /\ LET done == apply_masks(text, filtered_entities, ms.masking,
                                        ms.include_placeholders, ms.allowed_labels,
                                        counter)
                IN  /\ masked' = done.masked
                    /\ counter' = done.counter
             /\ raw' = found
             /\ entities' = filtered_entities
             /\ cfg' = [op |-> "api_mask", mode |-> rq.mode,
                        min_confidence |-> rq.min_confidence, nlp |-> rq.nlp,
                        settings |-> ms, start_counter |-> counter]
    /\ phase' = "masked"
    /\ UNCHANGED <<text, report, round>>

\* the client sends the masked text back as the text of a new request with
\* the same mode, threshold and masking settings
Resubmit ==
    /\ phase = "masked"
    /\ round < MaxRounds
    /\ phase' = "idle"
    /\ text' = masked
    /\ round' = round + 1
    /\ cfg' = [op |-> "resubmit", mode |-> cfg.mode, min_confidence |-> cfg.min_confidence,
               settings |-> cfg.settings]
    /\ raw' = << >>
    /\ entities' = << >>
    /\ masked' = << >>
    /\ UNCHANGED <<report, counter>>

NextApi ==
    \/ /\ phase = "idle"
       /\ LET regex_hits == detect_regex(text)
          IN  \E rq \in Requests(text) :
                \/ api_detect(rq, regex_hits)
                \/ api_mask(rq, regex_hits)
    \/ Resubmit

SpecApi == InitApi /\ [][NextApi]_vars

---------------------------------------------------------------------------
(* apply_masks calls of several request threads on the one counter         *)

ThreadText == <<"a", "b", "c">>

\* the annotations every call is given: two real ones around a placeholder
ThreadEnts ==
    << Entity("email", 0, 1, <<"a">>, 70, "medium", FALSE),
       Entity("placeholder", 1, 2, <<"b">>, 40, "low", TRUE),
       Entity("phone", 2, 3, <<"c">>, 70, "medium", FALSE) >>

\* a call that has not entered its loop: pc counts the annotations of
\* sorted_entities the loop has gone through
ThreadCalls ==
    { [mode |-> m, include_placeholders |-> ip, allowed_labels |-> al, pc |-> 0,
       masked |-> ThreadText] :
        m \in {"full", "partial", "synthetic"}, ip \in BOOLEAN,
        al \in {{}, {"email"}} }

InitThreads ==
    /\ phase = "threads"
    /\ cfg \in { [op |-> "threads", calls |-> c] : c \in [1..MaxThreads -> ThreadCalls] }
    /\ text = ThreadText
    /\ raw = << >>
    /\ entities = SortedByStartDesc(ThreadEnts)
    /\ report = NoReport
    /\ masked = << >>
    /\ counter = <<"1">>
    /\ round = 0

\* one pass of the loop of apply_masks in thread t.  next(_synthetic_counter)
\* is one call into the interpreter made while the thread holds the
\* interpreter lock, so taking the value and moving the counter is one step;
\* raw records which replacement got which counter value.
LoopPass(t) ==
    /\ phase = "threads"
    /\ cfg.op = "threads"
    /\ cfg.calls[t].pc < Len(entities)
    /\ LET call == cfg.calls[t]
           ent == entities[call.pc + 1]
       IN  IF Skipped(ent, call.include_placeholders, call.allowed_labels)
           THEN /\ cfg' = [cfg EXCEPT !.calls[t].pc = call.pc + 1]
                /\ UNCHANGED <<counter, raw>>
           ELSE LET replacement == mask_value(ent.value, ent.label, call.mode, counter)
                IN  /\ cfg' = [cfg EXCEPT !.calls[t].pc = call.pc + 1,
                                          !.calls[t].masked =
                                              Slice(call.masked, 0, ent.start) \o replacement
                                              \o Slice(call.masked, ent.end, Len(call.masked))]
                    /\ counter' = IF call.mode = "synthetic" THEN Incr(counter) ELSE counter
                    /\ raw' = IF call.mode = "synthetic"
                              THEN Append(raw, [thread |-> t, label |-> ent.label,
                                                obtained |-> counter,
                                                replacement |-> replacement])
                              ELSE raw
    /\ UNCHANGED <<phase, text, entities, report, masked, round>>

NextThreads == \E t \in 1..MaxThreads : LoopPass(t)

SpecThreads == InitThreads /\ [][NextThreads]_vars

\* every operation together: a run is one of the five kinds above
Init == InitResolve \/ InitScore \/ InitValue \/ InitApi \/ InitThreads
Next == NextResolve \/ NextScore \/ NextValue \/ NextApi \/ NextThreads
Spec == Init /\ [][Next]_vars

---------------------------------------------------------------------------
(* Properties of the Overlap Resolver                                      *)

\* two spans share no offset
Disjoint(a, b) == a.end <= b.start \/ b.end <= a.start

PairwiseDisjoint(ents) ==
    \A i \in 1..Len(ents) : \A j \in 1..Len(ents) :
        i # j => Disjoint(ents[i], ents[j])

\* C1: in every list _deduplicate_entities returns, and hence in what
\* detect_pii returns in either mode, any two distinct annotations a, b
\* satisfy a.end <= b.start or b.end <= a.start.
C1_NonOverlap ==
    /\ (phase = "resolved") => PairwiseDisjoint(entities)
    /\ (phase \in {"detected", "masked"}) => PairwiseDisjoint(raw)

\* the resolver was given overlapping candidates and kept two annotations
C1_Witness ==
    /\ phase = "resolved"
    /\ Len(entities) >= 2
    /\ \E i \in 1..Len(raw) : \E j \in 1..Len(raw) :
           i # j /\ ~Disjoint(raw[i], raw[j])

\* the candidate at index i of the list c comes before the one at index j in
\* the order (start ascending, length descending, position ascending)
ComesBefore(c, i, j) ==
    LET len_i == c[i].end - c[i].start
        len_j == c[j].end - c[j].start
    IN  \/ c[i].start < c[j].start
        \/ c[i].start = c[j].start /\ len_i > len_j
        \/ c[i].start = c[j].start /\ len_i = len_j /\ i < j

\* the candidates of c in that order
InOrder(c) ==
    [r \in 1..Len(c) |->
        c[CHOOSE i \in 1..Len(c) :
              Cardinality({j \in 1..Len(c) : ComesBefore(c, j, i)}) = r - 1]]

\* the ranks a greedy scan of the first k ordered candidates keeps
RECURSIVE GreedyKept(_, _)
GreedyKept(o, k) ==
    IF k = 0 THEN {}
    ELSE LET prev == GreedyKept(o, k - 1)
         IN  IF \E r \in prev : ~Disjoint(o[r], o[k]) THEN prev ELSE prev \cup {k}

\* the result of the greedy scan, as a list
GreedyScan(c) ==
    LET o == InOrder(c)
        kept == GreedyKept(o, Len(o))
    IN  [n \in 1..Cardinality(kept) |->
            o[CHOOSE r \in kept : Cardinality({q \in kept : q < r}) = n - 1]]

EmailText ==
    <<"E", "m", "a", "i", "l", ":", " ", "t", "e", "s", "t", "@", "e", "x", "a", "m",
      "p", "l", "e", ".", "c", "o", "m">>

\* an email rule hit and a placeholder hit over the same span of t
EmailTie(t) ==
    LET c == RegexCandidates(t)
    IN  \E i \in 1..Len(c) : \E j \in 1..Len(c) :
            /\ c[i].label = "email" /\ c[j].label = "placeholder"
            /\ c[i].start = c[j].start /\ c[i].end = c[j].end

\* C8: the resolver's output is the greedy scan of the candidates ordered by
\* (start ascending, length descending, input position ascending), so of
\* candidates with equal start and length the earliest in the input is kept;
\* an email that is also a dummy literal is returned by regex detection as
\* email and masked as [EMAIL], and in hybrid mode a regex hit is kept over an
\* NLP hit of the same span.
C8_GreedyByStartLengthPosition ==
    /\ (phase = "resolved") => entities = GreedyScan(raw)
    /\ (/\ phase = "masked" /\ round = 0 /\ EmailTie(text) /\ cfg.mode = "regex"
        /\ cfg.settings.masking = "full" /\ cfg.settings.allowed_labels = {})
       => /\ \E i \in 1..Len(raw) :
                 raw[i].label = "email" /\ Slice(text, raw[i].start, raw[i].end)
                     = <<"t", "e", "s", "t", "@", "e", "x", "a", "m", "p", "l", "e",
                         ".", "c", "o", "m">>
          /\ \A i \in 1..Len(raw) : raw[i].label # "placeholder"
          /\ masked = <<"E", "m", "a", "i", "l", ":", " ", "[", "E", "M", "A", "I", "L", "]">>
    /\ (/\ phase \in {"detected", "masked"} /\ round = 0
        /\ cfg.mode = "hybrid" /\ cfg.nlp.ents # << >>)
       => LET regex_hits == detect_regex(text)
              nlp_hits == NlpCandidates(text, cfg.nlp.ents)
          IN  \A i \in 1..Len(regex_hits) : \A j \in 1..Len(nlp_hits) :
                  (/\ regex_hits[i].start = nlp_hits[j].start
                   /\ regex_hits[i].end = nlp_hits[j].end
                   /\ regex_hits[i] # nlp_hits[j])
                  => /\ \E k \in 1..Len(raw) : raw[k] = regex_hits[i]
                     /\ \A k \in 1..Len(raw) : raw[k] # nlp_hits[j]

\* two candidates of different sources over one span, the later one dropped
C8_Witness ==
    /\ phase = "resolved"
    /\ \E i \in 1..Len(raw) : \E j \in 1..Len(raw) :
          /\ i < j
          /\ raw[i].start = raw[j].start /\ raw[i].end = raw[j].end
          /\ raw[i].label # raw[j].label
          /\ \E k \in 1..Len(entities) : entities[k] = raw[i]
          /\ \A k \in 1..Len(entities) : entities[k] # raw[j]

---------------------------------------------------------------------------
(* Properties of detection offsets                                         *)

\* C2: every annotation detection returns satisfies text[start:end] == value,
\* also for the capture-group rule bank_account, whose start/end are the
\* capture group's own offsets.
C2_OffsetValidity ==
    (phase \in {"detected", "masked"}) =>
        \A k \in 1..Len(raw) : Slice(text, raw[k].start, raw[k].end) = raw[k].value

---------------------------------------------------------------------------
(* Properties of risk_score                                                *)

\* C3 as stated: any annotation set with an entry labelled credit_card,
\* whatever its other fields, scores at least 65.
C3_AnyCreditCardEntry ==
    (phase = "scored" /\ \E i \in 1..Len(entities) : entities[i].label = "credit_card")
        => report.score >= 65

\* C3 (amended): any annotation set with an entry labelled credit_card that
\* is not flagged as a placeholder scores at least 65.
C3_CreditCardFloor ==
    (phase = "scored"
     /\ \E i \in 1..Len(entities) :
            entities[i].label = "credit_card" /\ ~entities[i].placeholder)
        => report.score >= 65

\* the floor is what lifts the score: one real credit card next to a
\* placeholder entry, scored 65
C3_Witness ==
    /\ phase = "scored"
    /\ \E i \in 1..Len(entities) :
           entities[i].label = "credit_card" /\ ~entities[i].placeholder
    /\ \E i \in 1..Len(entities) : entities[i].placeholder
    /\ RunningScore(entities) < 650
    /\ report.score = 65

\* how many annotations of ents carry the label and are not placeholders
Occurrences(ents, label) ==
    Cardinality({i \in 1..Len(ents) : ents[i].label = label /\ ~ents[i].placeholder})

\* 100% + 50% + 10% + 10% + ... of a weight for n occurrences, in tenths
TierSum(n, w) ==
    IF n = 0 THEN 0
    ELSE IF n = 1 THEN 10 * w
    ELSE 15 * w + (n - 2) * w

RECURSIVE SumOverLabels(_, _)
SumOverLabels(ents, labels) ==
    IF labels = {} THEN 0
    ELSE LET l == CHOOSE x \in labels : TRUE
         IN  TierSum(Occurrences(ents, l), Weight(l)) + SumOverLabels(ents, labels \ {l})

\* the diminishing-returns sum of an annotation set, in tenths
DiminishingSum(ents) ==
    SumOverLabels(ents, {ents[i].label : i \in 1..Len(ents)})

ThreeEmails ==
    LET e == Entity("email", 0, 1, <<"a">>, 70, "medium", FALSE) IN <<e, e, e>>

\* C4: the running score before floor and boosters is the sum over the
\* non-placeholder annotations of the label's weight times 100% for the
\* label's 1st occurrence, 50% for its 2nd and 10% for each later one; three
\* email annotations alone score 8.
C4_DiminishingReturns ==
    (phase = "scored") =>
        /\ RunningScore(entities) = DiminishingSum(entities)
        /\ (\A i \in 1..Len(entities) :
                entities[i].placeholder
                \/ entities[i].label \in {"email", "phone", "dob", "ip"})
           => report.score = Round(DiminishingSum(entities))
        /\ entities = ThreeEmails => report.score = 8

\* three emails were scored
C4_Witness == phase = "scored" /\ entities = ThreeEmails /\ report.score = 8

---------------------------------------------------------------------------
(* Properties of mask_value                                                *)

\* the Luhn checksum of a whole number: from the right, every second digit
\* doubled (less 9 when above 9), the sum a multiple of 10
LuhnTerm(d, from_right) ==
    IF from_right % 2 = 0 THEN (IF 2 * d > 9 THEN 2 * d - 9 ELSE 2 * d) ELSE d

RECURSIVE LuhnSum(_, _)
LuhnSum(digits, i) ==
    IF i > Len(digits) THEN 0
    ELSE LuhnTerm(DigitVal(digits[i]), Len(digits) - i + 1) + LuhnSum(digits, i + 1)

LuhnValid(digits) == LuhnSum(digits, 1) % 10 = 0

\* the characters of s that are not digits, in order
NonDigitsOf(s) == SelectSeq(s, LAMBDA ch : ~IsDigit(ch))

\* the last 14 digits of the counter, zero-filled on the left
Last14(cs) ==
    LET z == Repeat("0", 14) \o cs IN SubSeq(z, Len(z) - 13, Len(z))

\* C5: for every counter value and every original, the digits of the value
\* _synthetic_card returns, read in order, are 16 digits starting with 4 that
\* pass the Luhn checksum; regrouping into the original's separator pattern
\* never drops, reorders or adds a digit (the digits are 4, the counter's
\* last 14 digits and the check digit) and keeps the original's separators.
C5_SyntheticCardLuhn ==
    (phase = "returned" /\ cfg.label = "credit_card" /\ cfg.mode = "synthetic") =>
        LET d == DigitsOf(masked)
        IN  /\ Len(d) = 16
            /\ d[1] = "4"
            /\ SubSeq(d, 2, 15) = Last14(cfg.used)
            /\ LuhnValid(d)
            /\ NonDigitsOf(masked) = NonDigitsOf(cfg.value)

\* a counter wider than 14 digits, regrouped into a 4-4-4-4 original
C5_Witness ==
    /\ phase = "returned" /\ cfg.label = "credit_card" /\ cfg.mode = "synthetic"
    /\ Len(cfg.used) > 14
    /\ Len(DigitsOf(cfg.value)) = 16
    /\ Len(cfg.value) = 19
    /\ Len(masked) = 19

\* how many digits v has at position i or later
DigitsFrom(v, i) == Cardinality({j \in i..Len(v) : IsDigit(v[j])})

KeepOf(label) == IF label = "phone" THEN 3 ELSE 4

\* C6: partial masking of a value (keep k = 4 for credit_card, bank_account
\* and aadhaar, k = 3 for phone) returns a string of the same length in which
\* every non-digit stays at its position, the last k digits are unchanged and
\* every earlier digit is '*'.
C6_PartialKeepsTail ==
    (phase = "returned" /\ cfg.mode = "partial"
     /\ cfg.label \in {"credit_card", "bank_account", "aadhaar", "phone"}) =>
        LET v == cfg.value
            k == KeepOf(cfg.label)
        IN  /\ Len(masked) = Len(v)
            /\ \A i \in 1..Len(v) :
                   masked[i] = IF IsDigit(v[i]) /\ DigitsFrom(v, i) > k THEN "*" ELSE v[i]

\* a phone value with a separator and more than three digits
C6_Witness ==
    /\ phase = "returned" /\ cfg.mode = "partial" /\ cfg.label = "phone"
    /\ Len(DigitsOf(cfg.value)) > 3
    /\ \E i \in 1..Len(cfg.value) : cfg.value[i] = "-"
    /\ masked # cfg.value
    /\ \E i \in 1..Len(masked) : IsDigit(masked[i])

---------------------------------------------------------------------------
(* Properties of apply_masks                                               *)

\* an annotation apply_masks is to leave alone under the request's settings
LeftAlone(e) ==
    \/ (e.placeholder /\ ~cfg.settings.include_placeholders)
    \/ (cfg.settings.allowed_labels # {} /\ e.label \notin cfg.settings.allowed_labels)

Surviving == {i \in 1..Len(entities) : ~LeftAlone(entities[i])}

RECURSIVE IncrN(_, _)
IncrN(cs, n) == IF n = 0 THEN cs ELSE IncrN(Incr(cs), n - 1)

\* the replacement of the surviving annotation i: the annotations are
\* replaced from the last start to the first, each taking the next counter
\* value in synthetic mode
ReplacementOf(i) ==
    LET later == {j \in Surviving : entities[j].start > entities[i].start}
    IN  mask_value(entities[i].value, entities[i].label, cfg.settings.masking,
                   IncrN(cfg.start_counter, Cardinality(later)))

\* the text from offset pos on, with the ranges of the annotations in todo
\* replaced, built left to right
RECURSIVE Rebuilt(_, _)
Rebuilt(pos, todo) ==
    IF todo = {} THEN Slice(text, pos, Len(text))
    ELSE LET i == CHOOSE x \in todo : \A y \in todo : entities[x].start <= entities[y].start
         IN  Slice(text, pos, entities[i].start) \o ReplacementOf(i)
             \o Rebuilt(entities[i].end, todo \ {i})

\* C9: apply_masks returns the text with exactly the surviving annotations'
\* ranges replaced by their replacements, whatever the replacements' lengths:
\* every character outside those ranges is kept in order, the ranges of
\* skipped annotations included, so that a text whose annotations are all
\* skipped comes back identical.
C9_ExactlySurvivingRangesReplaced ==
    (phase = "masked") =>
        /\ masked = Rebuilt(0, Surviving)
        /\ Surviving = {} => masked = text

\* two annotations replaced, and the text's length changed
C9_Witness ==
    /\ phase = "masked"
    /\ Cardinality(Surviving) >= 2
    /\ Len(masked) # Len(text)

\* C7: full masking is idempotent: masking the fully-masked text again with
\* the same settings returns it unchanged.
C7_FullMaskingIdempotent ==
    (phase = "masked" /\ round >= 1 /\ cfg.mode = "regex"
     /\ cfg.settings.masking = "full") => masked = text

\* C10: in synthetic mode the replacement produced for an annotation is
\* never equal to the annotation's real value.
C10_SyntheticNeverReal ==
    (phase = "masked" /\ cfg.settings.masking = "synthetic") =>
        \A i \in Surviving : ReplacementOf(i) # entities[i].value

---------------------------------------------------------------------------
(* Properties of the detection modes                                       *)

\* C11: when the NLP adapter is unavailable, detect_pii(text, "hybrid")
\* returns the same annotation sequence, elements and order, as
\* detect_pii(text, "regex"), and the threshold filter and the risk report
\* built on it are the same too.
C11_HybridDegradesToRegex ==
    (phase \in {"detected", "masked"} /\ cfg.mode = "hybrid" /\ ~cfg.nlp.available) =>
        LET regex_only == detect_pii(text, "regex", cfg.nlp)
        IN  /\ raw = regex_only
            /\ entities = _filter_entities(regex_only, cfg.min_confidence)
            /\ phase = "detected" => report = risk_score(entities)

\* a hybrid request without the adapter that found two annotations
C11_Witness ==
    /\ phase = "detected" /\ cfg.mode = "hybrid" /\ ~cfg.nlp.available
    /\ Len(raw) >= 2

---------------------------------------------------------------------------
(* Properties of the allow-list                                            *)

\* what apply_masks returns for the request of this state when the
\* allow-list is allowed_labels instead
MaskedWith(allowed_labels) ==
    apply_masks(text, entities, cfg.settings.masking, cfg.settings.include_placeholders,
                allowed_labels, cfg.start_counter)

\* C12 as stated: adding a label no annotation carries to the allow-list, the
\* empty allow-list included, does not change what apply_masks masks.
C12_UnknownLabelChangesNothing ==
    (phase = "masked" /\ "unknown" \in cfg.settings.allowed_labels) =>
        masked = MaskedWith(cfg.settings.allowed_labels \ {"unknown"}).masked

\* C12 (amended): a label no annotation carries never matches; added to a
\* non-empty allow-list it does not change what apply_masks masks, and an
\* allow-list made of it alone is non-empty, so every annotation is skipped
\* and the text comes back unchanged.
C12_UnknownLabelNeverMatches ==
    (phase = "masked" /\ "unknown" \in cfg.settings.allowed_labels) =>
        LET others == cfg.settings.allowed_labels \ {"unknown"}
        IN  /\ \A i \in 1..Len(entities) : entities[i].label # "unknown"
            /\ others # {} =>
                   /\ masked = MaskedWith(others).masked
                   /\ counter = MaskedWith(others).counter
            /\ others = {} => (masked = text /\ counter = cfg.start_counter)

\* the unknown label next to email: the email was masked, another annotation
\* was left alone
C12_Witness ==
    /\ phase = "masked"
    /\ cfg.settings.allowed_labels = {"email", "unknown"}
    /\ masked # text
    /\ \E i \in 1..Len(entities) : entities[i].label = "email"
    /\ \E i \in 1..Len(entities) :
           entities[i].label # "email" /\ ~entities[i].placeholder

---------------------------------------------------------------------------
(* Properties of the synthetic counter                                     *)

\* the annotations thread t has replaced so far
ReplacedBy(t) ==
    {i \in 1..cfg.calls[t].pc :
        ~Skipped(entities[i], cfg.calls[t].include_placeholders,
                 cfg.calls[t].allowed_labels)}

\* the replacements made so far by the calls in synthetic mode
RECURSIVE SyntheticReplacements(_)
SyntheticReplacements(t) ==
    IF t = 0 THEN 0
    ELSE (IF cfg.calls[t].mode = "synthetic" THEN Cardinality(ReplacedBy(t)) ELSE 0)
         + SyntheticReplacements(t - 1)

RECURSIVE CounterAfter(_)
CounterAfter(n) == IF n = 0 THEN <<"1">> ELSE Incr(CounterAfter(n - 1))

\* C13: under any interleaving of concurrent masking calls every synthetic
\* replacement obtains a counter value no other replacement obtains, and the
\* counter has advanced by exactly one per synthetic replacement, whatever
\* the label; full and partial masking and skipped annotations do not
\* advance it.
C13_CounterAtomic ==
    (phase = "threads") =>
        /\ \A i \in 1..Len(raw) : \A j \in 1..Len(raw) :
               i # j => raw[i].obtained # raw[j].obtained
        /\ Len(raw) = SyntheticReplacements(MaxThreads)
        /\ counter = CounterAfter(Len(raw))
        /\ \A i \in 1..Len(raw) : cfg.calls[raw[i].thread].mode = "synthetic"

\* two synthetic calls interleaved: the replacements of one thread lie
\* between those of the other, next to a thread-skipped placeholder
C13_Witness ==
    /\ phase = "threads"
    /\ Len(raw) >= 3
    /\ raw[1].thread = raw[3].thread /\ raw[2].thread # raw[1].thread
    /\ raw[1].label # raw[3].label
    /\ \E t \in 1..MaxThreads :
           cfg.calls[t].mode = "synthetic" /\ cfg.calls[t].pc = Len(entities)
           /\ Cardinality(ReplacedBy(t)) < Len(entities)

---------------------------------------------------------------------------
(* Properties of the synthetic values                                      *)

\* C14: any two synthetic replacements made with different counter values
\* are different strings, for every label, the labels that cut the counter
\* to a fixed width included.
C14_SyntheticUnique ==
    (phase = "returned" /\ cfg.mode = "synthetic") =>
        \A i \in 1..Len(raw) :
            raw[i].obtained # cfg.used => raw[i].replacement # masked

---------------------------------------------------------------------------
(* Properties of the boosters and of the final score                       *)

\* the labels of the annotations of ents that are not placeholders
RealLabels(ents) == {ents[i].label : i \in {j \in 1..Len(ents) : ~ents[j].placeholder}}

\* the running score of ents raised to the floor, in tenths
Floored(ents) ==
    IF RealLabels(ents) \cap {"aadhaar", "credit_card", "passport", "bank_account"} # {}
       /\ DiminishingSum(ents) < 650
    THEN 650 ELSE DiminishingSum(ents)

IdentityBooster(ents) ==
    IF {"person_name", "dob"} \subseteq RealLabels(ents)
       /\ RealLabels(ents) \cap {"address", "phone", "email"} # {}
    THEN 250 ELSE 0

FinancialBooster(ents) ==
    IF "person_name" \in RealLabels(ents)
       /\ RealLabels(ents) \cap {"credit_card", "bank_account"} # {}
    THEN 200 ELSE 0

\* the final running total of ents, in tenths
FinalTotal(ents) == Floored(ents) + IdentityBooster(ents) + FinancialBooster(ents)

CardAndName ==
    << Entity("credit_card", 0, 1, <<"a">>, 70, "high", FALSE),
       Entity("person_name", 0, 1, <<"a">>, 70, "low", FALSE) >>

\* C15: the boosters are added after the floor and independently of each
\* other: +25 for person_name and dob with one of address, phone, email, +20
\* for person_name with one of credit_card, bank_account, both when both
\* hold; one credit_card and one person_name score 65 + 20 = 85.
C15_BoostersAfterFloor ==
    (phase = "scored") =>
        /\ FinalTotal(entities) < 1000 => report.score * 10 + 5 >= FinalTotal(entities)
        /\ FinalTotal(entities) < 1000 => report.score * 10 - 5 <= FinalTotal(entities)
        /\ FinalTotal(entities) >= 1000 => report.score = 100
        /\ entities = CardAndName => report.score = 85

\* one credit card and one name: below the floor before it, 85 after
C15_Witness ==
    /\ phase = "scored"
    /\ entities = CardAndName
    /\ RunningScore(entities) = 370
    /\ report.score = 85

TwoIpOneEmail ==
    << Entity("ip", 0, 1, <<"a">>, 70, "medium", FALSE),
       Entity("ip", 0, 1, <<"a">>, 70, "medium", FALSE),
       Entity("email", 0, 1, <<"a">>, 70, "medium", FALSE) >>

\* C16 as stated: the score is the final total rounded to the nearest
\* integer, a half rounded up, and clamped to 100 (6.5 gives 7).
C16_HalfRoundsUp ==
    (phase = "scored") =>
        LET up == (FinalTotal(entities) + 5) \div 10
        IN  report.score = IF up > 100 THEN 100 ELSE up

\* C16 (amended): the score is an integer in 0..100, the final total rounded
\* to the nearest integer and clamped to 100, where a total exactly halfway
\* between two integers goes to the even one (6.5 gives 6, 7.5 gives 8).
C16_RoundsHalfToEven ==
    (phase = "scored") =>
        LET total == FinalTotal(entities)
            n == report.score
        IN  /\ n \in 0..100
            /\ total >= 995 => n = 100
            /\ total < 995 =>
                   /\ 10 * n - total \in (0 - 5)..5
                   /\ (10 * n - total \in {0 - 5, 5}) => n % 2 = 0
            /\ entities = TwoIpOneEmail => n = 6

\* two ip and one email: the total is 6.5 and the score 6
C16_Witness ==
    /\ phase = "scored"
    /\ entities = TwoIpOneEmail
    /\ FinalTotal(entities) = 65
    /\ report.score = 6

---------------------------------------------------------------------------
(* Properties of the resolution in the two modes                           *)

\* every candidate of cands missing from result overlaps an annotation of
\* result
MaximalOver(cands, result) ==
    \A i \in 1..Len(cands) :
        (\A k \in 1..Len(result) : result[k] # cands[i])
        => \E k \in 1..Len(result) : ~Disjoint(cands[i], result[k])

\* the raw candidates of the request of this state: pattern-registry hits,
\* placeholder hits and, in hybrid mode, the hits of the adapter
RawCandidates ==
    RegexCandidates(text)
    \o (IF cfg.mode = "hybrid" /\ cfg.nlp.available
        THEN NlpCandidates(text, cfg.nlp.ents) ELSE << >>)

\* C17 as stated: in both modes what detect_pii returns is maximal over the
\* raw candidates, as one resolution over regex and NLP candidates together
\* would be.
C17_MaximalOverRawCandidates ==
    (phase \in {"detected", "masked"} /\ round = 0) =>
        MaximalOver(RawCandidates, raw)

\* C17 (amended): one run of the resolver returns a maximal non-overlapping
\* subset of its input, so regex-mode output is maximal over the raw
\* candidates; hybrid mode resolves the regex candidates first, the NLP hits
\* on their own, and then the two resolved lists together, so its output is
\* maximal over the resolved regex hits and the resolved NLP hits.
C17_MaximalOverResolvedInputs ==
    /\ (phase = "resolved") => MaximalOver(raw, entities)
    /\ (phase \in {"detected", "masked"} /\ round = 0) =>
           /\ MaximalOver(detect_regex(text) \o detect_nlp(text, cfg.nlp), raw)
           /\ cfg.mode = "regex" => MaximalOver(RegexCandidates(text), raw)
           /\ PairwiseDisjoint(raw)

\* hybrid mode: an NLP hit took the place of the regex hits it overlaps, and
\* a candidate those had suppressed is left without an overlapping annotation
C17_Witness ==
    /\ phase = "detected" /\ round = 0
    /\ cfg.mode = "hybrid" /\ cfg.nlp.available
    /\ \E i \in 1..Len(raw) : \E j \in 1..Len(NlpCandidates(text, cfg.nlp.ents)) :
           raw[i] = NlpCandidates(text, cfg.nlp.ents)[j]
    /\ ~MaximalOver(RegexCandidates(text), raw)

=============================================================================
